---------------------------- MODULE Spec2Model ----------------------------
(***************************************************************************)
(* A model of src/bpe/simple_tokenizer.py: the byte-level BPE tokenizer    *)
(* RegexTokenizer (train, _encode_chunk, encode_ordinary, decode) and the  *)
(* helpers get_stats, merge_token_ids and fast_merge_inplace_token_ids.    *)
(*                                                                         *)
(* A Python dict is modelled as a sequence of records [k, v] in insertion  *)
(* order (dicts iterate in insertion order); a list and a bytes object as  *)
(* a sequence; a str as a sequence of code points.                         *)
(***************************************************************************)
EXTENDS Integers, Sequences, FiniteSets, TLC

\* ------------------------------------------------------------------ bounds
\* Longest training text, in code points.
MaxTextLen == 4
\* Longest text handed to encode_ordinary, in code points.
MaxStrLen == 2
\* Largest number of merges a train call asks for (vocab_size - 256).
MaxMerges == 2
\* Longest id list handed to the two merge functions on their own.
MaxIdsLen == 4

\* ------------------------------------------------------- program constants
\* The byte alphabet: ids 0..255 are the single bytes (range(256)).
Base == 256
\* The replacement character U+FFFD of bytes.decode(errors='replace').
ReplacementChar == 65533

\* The code points texts are drawn from: 'a', U+00E9 (two bytes in UTF-8:
\* 195 169) and ' ' (which the split pattern treats as a chunk boundary).
Alphabet == {97, 233, 32}

\* The ids the merge functions are exercised on by themselves: two bytes
\* and one merge token.
MergeToks == {97, 98, 256}

\* All sequences over S of length at most n.
RECURSIVE SeqsUpTo(_, _)
SeqsUpTo(S, n) ==
    IF n = 0
    THEN {<<>>}
    ELSE LET shorter == SeqsUpTo(S, n - 1)
         IN  shorter \cup {Append(s, x) : s \in shorter, x \in S}

\* ------------------------------------------------------------ Python dict
DictFind(d, key) ==
    IF \E j \in 1..Len(d) : d[j].k = key
    THEN CHOOSE j \in 1..Len(d) : d[j].k = key
    ELSE 0

DictHas(d, key) == DictFind(d, key) # 0

\* d.get(key, default)
DictGet(d, key, default) ==
    IF DictHas(d, key) THEN d[DictFind(d, key)].v ELSE default

\* d[key] = val: an existing key keeps its place, a new key goes last.
DictSet(d, key, val) ==
    IF DictHas(d, key)
    THEN [d EXCEPT ![DictFind(d, key)] = [k |-> key, v |-> val]]
    ELSE Append(d, [k |-> key, v |-> val])

\* ------------------------------------------------------------- get_stats
RECURSIVE GetStatsFrom(_, _, _)
GetStatsFrom(token_ids, j, counts) ==
    IF j >= Len(token_ids)
    THEN counts
    ELSE LET pair == <<token_ids[j], token_ids[j + 1]>>
         IN  GetStatsFrom(token_ids, j + 1,
                          DictSet(counts, pair, DictGet(counts, pair, 0) + 1))

\* get_stats(token_ids, counts): zip(token_ids, token_ids[1:]) left to right.
GetStats(token_ids, counts) == GetStatsFrom(token_ids, 1, counts)

\* ------------------------------------------------------- merge_token_ids
RECURSIVE MergeLoopOverlap(_, _, _, _, _)
MergeLoopOverlap(ids, pair, idx, i, new_ids) ==
    IF ~(i < Len(ids))
    THEN new_ids
    ELSE IF ids[i + 1] = pair[1] /\ i < Len(ids) - 1 /\ ids[i + 2] = pair[2]
         THEN MergeLoopOverlap(ids, pair, idx, i + 1, Append(new_ids, idx))
         ELSE MergeLoopOverlap(ids, pair, idx, i + 1, Append(new_ids, ids[i + 1]))

\* A merge that advances by one after a match (occurrences may overlap).
MergeTokenIdsOverlap(ids, pair, idx) == MergeLoopOverlap(ids, pair, idx, 0, <<>>)

\* The while loop; i is the 0-based cursor of the code, ids[i] is ids[i + 1] here.
RECURSIVE MergeLoop(_, _, _, _, _)
MergeLoop(ids, pair, idx, i, new_ids) ==
    IF ~(i < Len(ids))
    THEN new_ids
    ELSE IF ids[i + 1] = pair[1] /\ i < Len(ids) - 1 /\ ids[i + 2] = pair[2]
         THEN MergeLoop(ids, pair, idx, i + 2, Append(new_ids, idx))
         ELSE MergeLoop(ids, pair, idx, i + 1, Append(new_ids, ids[i + 1]))

MergeTokenIds(ids, pair, idx) == MergeLoop(ids, pair, idx, 0, <<>>)

\* ------------------------------------------ fast_merge_inplace_token_ids
\* ids.pop(i + 1) with the 0-based i of the code.
ListPop(ids, i) ==
    [j \in 1..(Len(ids) - 1) |-> IF j <= i THEN ids[j] ELSE ids[j + 1]]

\* The while loop on the list it mutates; a match leaves i where it is.
RECURSIVE FastMergeLoop(_, _, _, _)
FastMergeLoop(ids, pair, idx, i) ==
    IF ~(i < Len(ids) - 1)
    THEN ids
    ELSE IF ids[i + 1] = pair[1] /\ ids[i + 2] = pair[2]
         THEN FastMergeLoop(ListPop([ids EXCEPT ![i + 1] = idx], i + 1), pair, idx, i)
         ELSE FastMergeLoop(ids, pair, idx, i + 1)

FastMergeInplaceTokenIds(ids, pair, idx) == FastMergeLoop(ids, pair, idx, 0)

\* ------------------------------------------------- the split pattern (line 11)
\* The classes of the pattern, for the code points below 256.
\* \p{L}
Letters ==
    (65..90) \cup (97..122) \cup {170, 181, 186}
        \cup (192..214) \cup (216..246) \cup (248..255)

\* \p{N}
Numbers == (48..57) \cup {178, 179, 185, 188, 189, 190}

\* \s
Whites == (9..13) \cup {32, 133, 160}

\* [\r\n]
Newlines == {10, 13}

\* [^\s\p{L}\p{N}]
Others == (0..255) \ (Whites \cup Letters \cup Numbers)

IsLetter(c) == c \in Letters
IsNumber(c) == c \in Numbers
IsNewline(c) == c \in Newlines

\* How many code points from position p on (1-based) are all in the class.
RunLen(s, p, class) ==
    LET lens == {n \in 0..(Len(s) - p + 1) : \A j \in 0..(n - 1) : s[p + j] \in class}
    IN  CHOOSE n \in lens : \A m \in lens : m <= n

\* Under (?i): the ASCII letters fold to lower case.
Lower(c) == IF c \in 65..90 THEN c + 32 ELSE c

\* Each alternative: the length it matches at p, 0 when it does not match.
\* '(?i:[sdmt]|ll|ve|re)
Alt1(s, p) ==
    IF s[p] # 39 \/ p + 1 > Len(s)
    THEN 0
    ELSE IF Lower(s[p + 1]) \in {115, 100, 109, 116}
         THEN 2
         ELSE IF /\ p + 2 <= Len(s)
                 /\ <<Lower(s[p + 1]), Lower(s[p + 2])>>
                        \in {<<108, 108>>, <<118, 101>>, <<114, 101>>}
              THEN 3
              ELSE 0

\* [^\r\n\p{L}\p{N}]?+\p{L}+ : the optional first code point is possessive.
Alt2(s, p) ==
    LET lead == IF ~IsNewline(s[p]) /\ ~IsLetter(s[p]) /\ ~IsNumber(s[p]) THEN 1 ELSE 0
        letters == RunLen(s, p + lead, Letters)
    IN  IF letters >= 1 THEN lead + letters ELSE 0

\* \p{N}{1,3}
Alt3(s, p) ==
    LET digits == RunLen(s, p, Numbers)
    IN  IF digits > 3 THEN 3 ELSE digits

\*  ?[^\s\p{L}\p{N}]++[\r\n]?
Alt4(s, p) ==
    LET lead == IF s[p] = 32 THEN 1 ELSE 0
        others == RunLen(s, p + lead, Others)
        after == p + lead + others
    IN  IF others >= 1
        THEN lead + others + (IF after <= Len(s) /\ IsNewline(s[after]) THEN 1 ELSE 0)
        ELSE 0

\* \s*[\r\n] : greedy \s* backs off to the last newline of the whitespace run.
Alt5(s, p) ==
    LET white == RunLen(s, p, Whites)
        newlines == {q \in p..(p + white - 1) : IsNewline(s[q])}
    IN  IF newlines = {}
        THEN 0
        ELSE (CHOOSE q \in newlines : \A r \in newlines : r <= q) - p + 1

\* \s+(?!\S) : the run, less its last code point when a non-space follows.
Alt6(s, p) ==
    LET white == RunLen(s, p, Whites)
    IN  IF white = 0
        THEN 0
        ELSE IF p + white > Len(s) THEN white ELSE white - 1

\* \s+
Alt7(s, p) == RunLen(s, p, Whites)

\* The pattern without its last two alternatives, \s+(?!\S) and \s+.
MatchAtNoSpaceRun(s, p) ==
    IF Alt1(s, p) > 0 THEN Alt1(s, p)
    ELSE IF Alt2(s, p) > 0 THEN Alt2(s, p)
    ELSE IF Alt3(s, p) > 0 THEN Alt3(s, p)
    ELSE IF Alt4(s, p) > 0 THEN Alt4(s, p)
    ELSE Alt5(s, p)

\* The leftmost alternative that matches decides.
MatchAt(s, p) ==
    IF Alt1(s, p) > 0 THEN Alt1(s, p)
    ELSE IF Alt2(s, p) > 0 THEN Alt2(s, p)
    ELSE IF Alt3(s, p) > 0 THEN Alt3(s, p)
    ELSE IF Alt4(s, p) > 0 THEN Alt4(s, p)
    ELSE IF Alt5(s, p) > 0 THEN Alt5(s, p)
    ELSE IF Alt6(s, p) > 0 THEN Alt6(s, p)
    ELSE Alt7(s, p)

RECURSIVE FindAllFrom(_, _, _)
FindAllFrom(s, p, found) ==
    IF p > Len(s)
    THEN found
    ELSE LET n == MatchAt(s, p)
         IN  IF n = 0
             THEN FindAllFrom(s, p + 1, found)
             ELSE FindAllFrom(s, p + n, Append(found, SubSeq(s, p, p + n - 1)))

\* re.findall(self.compiled_pattern, text): the matches, left to right; a
\* code point where nothing matches is skipped.
FindAll(s) == FindAllFrom(s, 1, <<>>)

\* ------------------------------------------------------------------ UTF-8
\* One code point (below U+10000) as its UTF-8 bytes.
Utf8EncodeChar(c) ==
    IF c < 128 THEN <<c>>
    ELSE IF c < 2048 THEN <<192 + (c \div 64), 128 + (c % 64)>>
    ELSE <<224 + (c \div 4096), 128 + ((c \div 64) % 64), 128 + (c % 64)>>

RECURSIVE Utf8Encode(_)
\* str.encode("utf-8")
Utf8Encode(s) ==
    IF s = <<>> THEN <<>> ELSE Utf8EncodeChar(Head(s)) \o Utf8Encode(Tail(s))

IsCont(b, p) == p <= Len(b) /\ b[p] \in 128..191

\* The second byte a three-byte lead allows.
IsSecondOf3(b, p) ==
    /\ p + 1 <= Len(b)
    /\ b[p + 1] \in (IF b[p] = 224 THEN 160..191
                     ELSE IF b[p] = 237 THEN 128..159
                     ELSE 128..191)

RECURSIVE Utf8DecodeFrom(_, _, _)
\* bytes.decode('utf-8', errors='replace') for one-, two- and three-byte
\* forms: an invalid or cut-off sequence gives one U+FFFD for its longest
\* valid prefix (a four-byte lead, 240 and up, is outside the code points
\* modelled and is taken as an invalid byte).
Utf8DecodeFrom(b, p, text) ==
    IF p > Len(b)
    THEN text
    ELSE IF b[p] < 128
         THEN Utf8DecodeFrom(b, p + 1, Append(text, b[p]))
    ELSE IF b[p] \in 194..223 /\ IsCont(b, p + 1)
         THEN Utf8DecodeFrom(b, p + 2,
                  Append(text, (b[p] - 192) * 64 + (b[p + 1] - 128)))
    ELSE IF b[p] \in 224..239 /\ IsSecondOf3(b, p) /\ IsCont(b, p + 2)
         THEN Utf8DecodeFrom(b, p + 3,
                  Append(text, (b[p] - 224) * 4096 + (b[p + 1] - 128) * 64
                               + (b[p + 2] - 128)))
    ELSE IF b[p] \in 224..239 /\ IsSecondOf3(b, p)
         THEN Utf8DecodeFrom(b, p + 2, Append(text, ReplacementChar))
    ELSE Utf8DecodeFrom(b, p + 1, Append(text, ReplacementChar))

Utf8Decode(b) == Utf8DecodeFrom(b, 1, <<>>)

\* --------------------------------------------------------- RegexTokenizer
\* vocab[idx] = val on a dict keyed by id (a function on the ids it holds).
VocabSet(vocab_, idx, val) ==
    [id \in (DOMAIN vocab_) \cup {idx} |-> IF id = idx THEN val ELSE vocab_[id]]

\* {idx: bytes([idx]) for idx in range(256)}
BaseVocab == [idx \in 0..(Base - 1) |-> <<idx>>]

RECURSIVE BuildVocabFrom(_, _, _)
BuildVocabFrom(merges_, j, vocab_) ==
    IF j > Len(merges_)
    THEN vocab_
    ELSE LET p0 == merges_[j].k[1]
             p1 == merges_[j].k[2]
         IN  BuildVocabFrom(merges_, j + 1,
                            VocabSet(vocab_, merges_[j].v, vocab_[p0] \o vocab_[p1]))

\* _build_vocab with no special tokens (self.special_tokens is always {}).
BuildVocab(merges_) == BuildVocabFrom(merges_, 1, BaseVocab)

\* The assert compiled away.
VocabSizeAny(vocab_size) == TRUE

\* assert vocab_size >= 256
VocabSizeOk(vocab_size) == vocab_size >= Base

\* One merge too many.
NumMergesOffByOne(vocab_size) == vocab_size - Base + 1

\* num_merges = vocab_size - 256
NumMerges(vocab_size) == vocab_size - Base

\* [list(chunk.encode("utf-8")) for chunk in text_chunks]
ChunkIds(text) ==
    LET text_chunks == FindAll(text)
    IN  [c \in 1..Len(text_chunks) |-> Utf8Encode(text_chunks[c])]

RECURSIVE AccumStatsFrom(_, _, _)
AccumStatsFrom(ids, c, stats) ==
    IF c > Len(ids)
    THEN stats
    ELSE AccumStatsFrom(ids, c + 1, GetStats(ids[c], stats))

\* stats = {}; for chunk_ids in ids: get_stats(chunk_ids, stats)
AccumStats(ids) == AccumStatsFrom(ids, 1, <<>>)

RECURSIVE MaxKeyFrom(_, _, _)
MaxKeyFrom(stats, j, best) ==
    IF j > Len(stats)
    THEN stats[best].k
    ELSE MaxKeyFrom(stats, j + 1, IF stats[j].v > stats[best].v THEN j ELSE best)

RECURSIVE MaxKeyLastFrom(_, _, _)
MaxKeyLastFrom(stats, j, best) ==
    IF j > Len(stats)
    THEN stats[best].k
    ELSE MaxKeyLastFrom(stats, j + 1, IF stats[j].v >= stats[best].v THEN j ELSE best)

\* The last key of greatest count instead of the first.
MaxKeyLast(stats) == MaxKeyLastFrom(stats, 2, 1)

\* max(stats, key=stats.get) on a non-empty dict: the first key, in
\* iteration order, whose count no other key exceeds.
MaxKey(stats) == MaxKeyFrom(stats, 2, 1)

\* More than one pair at all, whatever the counts.
TieAtMaxAnyPair(stats, pair) == Len(stats) > 1

\* len(pairs_with_max_count) > 1
TieAtMax(stats, pair) ==
    LET pair_count == DictGet(stats, pair, 0)
        pairs_with_max_count == SelectSeq(stats, LAMBDA e : e.v = pair_count)
    IN  Len(pairs_with_max_count) > 1

\* Ids minted from 257.
NewTokenIdOffByOne(i) == Base + i + 1

\* idx = 256 + i
NewTokenId(i) == Base + i

\* The key of _encode_chunk's min: self.merges.get(p, float("inf")), as
\* <<0, idx>> for a merge and <<1, 0>> for inf.
MergeRank(merges_, pair) ==
    IF DictHas(merges_, pair) THEN <<0, DictGet(merges_, pair, 0)>> ELSE <<1, 0>>

RankLess(x, y) == x[1] < y[1] \/ (x[1] = y[1] /\ x[2] < y[2])

RECURSIVE MinKeyFrom(_, _, _, _)
MinKeyFrom(stats, merges_, j, best) ==
    IF j > Len(stats)
    THEN stats[best].k
    ELSE MinKeyFrom(stats, merges_, j + 1,
                    IF RankLess(MergeRank(merges_, stats[j].k),
                                MergeRank(merges_, stats[best].k))
                    THEN j ELSE best)

\* The most frequent pair of the ids instead of the pair of least rank.
MinKeyMostFrequent(stats, merges_) == MaxKey(stats)

\* The leftmost pair that is a key of merges, whatever its rank.
MinKeyLeftmost(stats, merges_) ==
    LET known == {j \in 1..Len(stats) : DictHas(merges_, stats[j].k)}
    IN  IF known = {}
        THEN stats[1].k
        ELSE stats[CHOOSE j \in known : \A n \in known : j <= n].k

\* min(stats, key=...): the first key, in iteration order, of least rank.
MinKey(stats, merges_) == MinKeyFrom(stats, merges_, 2, 1)

RECURSIVE JoinVocab(_, _)
\* b''.join(self.vocab[idx] for idx in token_ids)
JoinVocab(vocab_, token_ids) ==
    IF token_ids = <<>>
    THEN <<>>
    ELSE vocab_[Head(token_ids)] \o JoinVocab(vocab_, Tail(token_ids))

VARIABLES
    in_ids,     \* the ids the caller starts from
    mg_ids,     \* the list passed to merge_token_ids (the caller's object)
    mg_pair,    \* pair
    mg_idx,     \* idx
    mg_ret,     \* what merge_token_ids returned
    mg_done,    \* merge_token_ids has been called
    fm_ids,     \* the copy of ids passed to fast_merge_inplace_token_ids
    fm_ret,     \* what fast_merge_inplace_token_ids returned
    fm_done     \* fast_merge_inplace_token_ids has been called

mergeVars == <<in_ids, mg_ids, mg_pair, mg_idx, mg_ret, mg_done, fm_ids, fm_ret, fm_done>>

VARIABLES
    merges,        \* self.merges
    vocab,         \* self.vocab
    pc,            \* "idle", or where the running call is
    tr_text,       \* train: text
    tr_vocab_size, \* train: vocab_size
    tr_i,          \* train: rounds of the for loop completed
    tr_ids,        \* train: ids, one list per chunk
    tr_merges,     \* train: merges
    tr_vocab,      \* train: vocab
    tr_ambiguous,  \* train: ambiguous
    tr_outcome,    \* last train call: "none", "running", "returned", "AssertionError"
    tr_ret,        \* last train call: the value returned
    tr_seen,       \* train: ids as each round so far found them (a record)
    tr_pairs,      \* train: the pair of each round so far (a record)
    en_text,       \* encode_ordinary: text
    en_chunks,     \* encode_ordinary: text_chunks
    en_k,          \* encode_ordinary: chunks done
    en_ids,        \* encode_ordinary: ids
    en_outcome,    \* last encode_ordinary call: "none", "running", "returned"
    ch_ids,        \* _encode_chunk: ids
    ch_prev,       \* _encode_chunk: ids before the latest merge
    ch_pair,       \* _encode_chunk: pair of the latest merge
    ch_applied,    \* _encode_chunk: the idx of each merge applied, in order
    dc_outcome,    \* decode of the ids encode_ordinary returned: "none", "returned", "KeyError"
    dc_text        \* decode: text

tokVars == <<merges, vocab, pc, tr_text, tr_vocab_size, tr_i, tr_ids, tr_merges,
             tr_vocab, tr_ambiguous, tr_outcome, tr_ret, tr_seen, tr_pairs,
             en_text, en_chunks, en_k, en_ids, en_outcome, ch_ids,
             ch_prev, ch_pair, ch_applied, dc_outcome, dc_text>>

selfVars == <<merges, vocab>>
trainVars == <<tr_text, tr_vocab_size, tr_i, tr_ids, tr_merges, tr_vocab,
               tr_ambiguous, tr_outcome, tr_ret, tr_seen, tr_pairs>>
chunkVars == <<ch_ids, ch_prev, ch_pair, ch_applied>>
encodeVars == <<en_text, en_chunks, en_k, en_ids, en_outcome>>
decodeVars == <<dc_outcome, dc_text>>

Texts == SeqsUpTo(Alphabet, MaxTextLen)
Strings == SeqsUpTo(Alphabet, MaxStrLen)

\* The chunking of every text of the model, computed once.
FindAllOf == [text \in Texts \cup Strings |-> FindAll(text)]
ChunkIdsOf == [text \in Texts |-> ChunkIds(text)]
VocabSizes == {0} \cup ((Base - 1)..(Base + MaxMerges))

NoTrainLocals ==
    /\ tr_text = <<>>
    /\ tr_i = 0
    /\ tr_ids = <<>>
    /\ tr_merges = <<>>
    /\ tr_vocab = BaseVocab
    /\ tr_ambiguous = FALSE
    /\ tr_ret = FALSE
    /\ tr_seen = <<>>
    /\ tr_pairs = <<>>

NoEncode ==
    /\ en_text = <<>>
    /\ en_chunks = <<>>
    /\ en_k = 0
    /\ en_ids = <<>>
    /\ en_outcome = "none"
    /\ ch_ids = <<>>
    /\ ch_prev = <<>>
    /\ ch_pair = <<>>
    /\ ch_applied = <<>>

NoDecode ==
    /\ dc_outcome = "none"
    /\ dc_text = <<>>

\* The locals of train, the results of encode_ordinary and of decode, dropped.
DropTrainLocals ==
    /\ tr_text' = <<>>
    /\ tr_i' = 0
    /\ tr_ids' = <<>>
    /\ tr_merges' = <<>>
    /\ tr_vocab' = BaseVocab
    /\ tr_ambiguous' = FALSE
    /\ tr_ret' = FALSE
    /\ tr_seen' = <<>>
    /\ tr_pairs' = <<>>

DropEncode ==
    /\ en_text' = <<>>
    /\ en_chunks' = <<>>
    /\ en_k' = 0
    /\ en_ids' = <<>>
    /\ en_outcome' = "none"
    /\ ch_ids' = <<>>
    /\ ch_prev' = <<>>
    /\ ch_pair' = <<>>
    /\ ch_applied' = <<>>

DropDecode ==
    /\ dc_outcome' = "none"
    /\ dc_text' = <<>>

\* RegexTokenizer(): __init__
TokInit ==
    /\ merges = <<>>
    /\ vocab = BuildVocab(<<>>)
    /\ pc = "idle"
    /\ tr_vocab_size = Base
    /\ tr_outcome = "none"
    /\ NoTrainLocals
    /\ NoEncode
    /\ NoDecode

\* train(text, vocab_size) up to the loop: the assert, the chunking, the
\* fresh merges and vocab (lines 101-112).  The call is taken from the idle
\* states that hold no encode result: encode_ordinary and decode leave self
\* alone and their results are dropped here, so a call made after them
\* leads to the same state.  A tokenizer that has been through a train call
\* is retrained on the shorter texts only (train reads nothing of self).
TrainCall(text, vocab_size) ==
    /\ pc = "idle"
    /\ en_outcome = "none"
    /\ tr_outcome = "none" \/ text \in Strings
    /\ tr_vocab_size' = vocab_size
    /\ DropEncode
    /\ DropDecode
    /\ IF ~VocabSizeOk(vocab_size)
       THEN /\ tr_outcome' = "AssertionError"
            /\ DropTrainLocals
            /\ UNCHANGED <<merges, vocab, pc>>
       ELSE /\ tr_outcome' = "running"
            /\ tr_text' = text
            /\ tr_i' = 0
            /\ tr_ids' = ChunkIdsOf[text]
            /\ tr_merges' = <<>>
            /\ tr_vocab' = BaseVocab
            /\ tr_ambiguous' = FALSE
            /\ tr_ret' = FALSE
            /\ tr_seen' = <<>>
            /\ tr_pairs' = <<>>
            /\ pc' = "train"
            /\ UNCHANGED <<merges, vocab>>
    /\ UNCHANGED mergeVars

\* One round of the for loop (lines 114-139) that merges.
TrainRound ==
    /\ pc = "train"
    /\ tr_i < NumMerges(tr_vocab_size)
    /\ LET stats == AccumStats(tr_ids)
       IN  /\ stats # <<>>
           /\ LET pair == MaxKey(stats)
                  idx == NewTokenId(tr_i)
              IN  /\ tr_ambiguous' = (IF TieAtMax(stats, pair) THEN TRUE ELSE tr_ambiguous)
                  /\ tr_ids' = [c \in 1..Len(tr_ids) |-> MergeTokenIds(tr_ids[c], pair, idx)]
                  /\ tr_merges' = DictSet(tr_merges, pair, idx)
                  /\ tr_vocab' = VocabSet(tr_vocab, idx,
                                          tr_vocab[pair[1]] \o tr_vocab[pair[2]])
                  /\ tr_pairs' = Append(tr_pairs, pair)
    /\ tr_seen' = Append(tr_seen, tr_ids)
    /\ tr_i' = tr_i + 1
    /\ UNCHANGED <<merges, vocab, pc, tr_text, tr_vocab_size, tr_outcome, tr_ret>>
    /\ UNCHANGED <<encodeVars, chunkVars, decodeVars, mergeVars>>

\* The loop ends (range exhausted, or break on empty stats) and train
\* stores merges and vocab and returns ambiguous (lines 122-123, 144-148).
TrainReturn ==
    /\ pc = "train"
    /\ \/ ~(tr_i < NumMerges(tr_vocab_size))
       \/ AccumStats(tr_ids) = <<>>
    /\ merges' = tr_merges
    /\ vocab' = tr_vocab
    /\ tr_ret' = tr_ambiguous
    /\ tr_outcome' = "returned"
    /\ pc' = "idle"
    /\ UNCHANGED <<tr_text, tr_vocab_size, tr_i, tr_ids, tr_merges, tr_vocab,
                   tr_ambiguous, tr_seen, tr_pairs>>
    /\ UNCHANGED <<encodeVars, chunkVars, decodeVars, mergeVars>>

\* encode_ordinary(text): lines 171-172.
EncodeBegin(text) ==
    /\ pc = "idle"
    /\ en_text' = text
    /\ en_chunks' = FindAllOf[text]
    /\ en_k' = 0
    /\ en_ids' = <<>>
    /\ en_outcome' = "running"
    /\ ch_ids' = <<>>
    /\ ch_prev' = <<>>
    /\ ch_pair' = <<>>
    /\ ch_applied' = <<>>
    /\ DropDecode
    /\ pc' = "encode"
    /\ UNCHANGED <<selfVars, mergeVars>>

\* encode_ordinary on any text; what is remembered of the last train call
\* (its locals are gone when it has returned) is dropped.
EncodeCall(text) ==
    /\ EncodeBegin(text)
    /\ tr_vocab_size' = Base
    /\ tr_outcome' = "none"
    /\ DropTrainLocals

\* encode_ordinary on the text the tokenizer was last trained on, with
\* train's final ids kept to compare.
EncodeTrainingText ==
    /\ tr_outcome = "returned"
    /\ EncodeBegin(tr_text)
    /\ UNCHANGED trainVars

\* The for loop takes the next chunk and enters _encode_chunk (174-175, 153).
EncodeChunkCall ==
    /\ pc = "encode"
    /\ en_k < Len(en_chunks)
    /\ ch_ids' = Utf8Encode(en_chunks[en_k + 1])
    /\ ch_prev' = <<>>
    /\ ch_pair' = <<>>
    /\ ch_applied' = <<>>
    /\ pc' = "chunk"
    /\ UNCHANGED <<selfVars, trainVars, encodeVars, decodeVars, mergeVars>>

\* _encode_chunk's loop goes on: len(ids) >= 2 and the pair min() finds is
\* in self.merges (lines 154-162).
ChunkLoopMerges(ids, merges_) ==
    IF Len(ids) >= 2
    THEN DictHas(merges_, MinKey(GetStats(ids, <<>>), merges_))
    ELSE FALSE

\* One iteration of _encode_chunk's while loop that merges (154-165).
EncodeChunkStep ==
    /\ pc = "chunk"
    /\ ChunkLoopMerges(ch_ids, merges)
    /\ LET stats == GetStats(ch_ids, <<>>)
           pair == MinKey(stats, merges)
           idx == DictGet(merges, pair, 0)
       IN  /\ ch_ids' = MergeTokenIds(ch_ids, pair, idx)
           /\ ch_applied' = Append(ch_applied, idx)
           /\ ch_pair' = pair
    /\ ch_prev' = ch_ids
    /\ UNCHANGED <<selfVars, trainVars, encodeVars, decodeVars, pc, mergeVars>>

\* _encode_chunk leaves its loop and returns; ids.extend(chunk_ids) (176).
EncodeChunkReturn ==
    /\ pc = "chunk"
    /\ ~ChunkLoopMerges(ch_ids, merges)
    /\ en_ids' = en_ids \o ch_ids
    /\ en_k' = en_k + 1
    /\ pc' = "encode"
    /\ UNCHANGED <<selfVars, trainVars, chunkVars, decodeVars, mergeVars,
                   en_text, en_chunks, en_outcome>>

\* return ids (177)
EncodeReturn ==
    /\ pc = "encode"
    /\ ~(en_k < Len(en_chunks))
    /\ en_outcome' = "returned"
    /\ pc' = "idle"
    /\ UNCHANGED <<selfVars, trainVars, chunkVars, decodeVars, mergeVars,
                   en_text, en_chunks, en_k, en_ids>>

\* decode(ids) of the ids encode_ordinary returned (181-183); an id that
\* self.vocab does not hold raises KeyError.
DecodeCall ==
    /\ pc = "idle"
    /\ en_outcome = "returned"
    /\ dc_outcome = "none"
    /\ IF \A n \in 1..Len(en_ids) : en_ids[n] \in DOMAIN vocab
       THEN /\ dc_text' = Utf8Decode(JoinVocab(vocab, en_ids))
            /\ dc_outcome' = "returned"
       ELSE /\ dc_text' = <<>>
            /\ dc_outcome' = "KeyError"
    /\ UNCHANGED <<selfVars, trainVars, encodeVars, chunkVars, pc, mergeVars>>

\* ================================================= the merge functions alone
MergeInit ==
    /\ in_ids \in SeqsUpTo(MergeToks, MaxIdsLen)
    /\ mg_ids = in_ids
    /\ mg_pair \in MergeToks \X MergeToks
    /\ mg_idx \in MergeToks
    /\ mg_ret = <<>>
    /\ mg_done = FALSE
    /\ fm_ids = in_ids
    /\ fm_ret = <<>>
    /\ fm_done = FALSE

\* new = merge_token_ids(ids, pair, idx): ids is only read.
CallMergeTokenIds ==
    /\ ~mg_done
    /\ mg_ret' = MergeTokenIds(mg_ids, mg_pair, mg_idx)
    /\ mg_done' = TRUE
    /\ UNCHANGED <<in_ids, mg_ids, mg_pair, mg_idx, fm_ids, fm_ret, fm_done, tokVars>>

\* fast_merge_inplace_token_ids(copy, pair, idx): mutates and returns copy.
CallFastMerge ==
    /\ ~fm_done
    /\ fm_ids' = FastMergeInplaceTokenIds(fm_ids, mg_pair, mg_idx)
    /\ fm_ret' = fm_ids'
    /\ fm_done' = TRUE
    /\ UNCHANGED <<in_ids, mg_ids, mg_pair, mg_idx, mg_ret, mg_done, tokVars>>

MergeIdle ==
    /\ in_ids = <<>>
    /\ mg_ids = <<>>
    /\ mg_pair = <<0, 0>>
    /\ mg_idx = 0
    /\ mg_ret = <<>>
    /\ mg_done = FALSE
    /\ fm_ids = <<>>
    /\ fm_ret = <<>>
    /\ fm_done = FALSE

vars == <<tokVars, mergeVars>>

\* ------------------------------------------------------- the tokenizer
Init == TokInit /\ MergeIdle

Next ==
    \/ \E text \in Texts, vocab_size \in VocabSizes : TrainCall(text, vocab_size)
    \/ TrainRound
    \/ TrainReturn
    \/ \E text \in Strings : EncodeCall(text)
    \/ EncodeTrainingText
    \/ EncodeChunkCall
    \/ EncodeChunkStep
    \/ EncodeChunkReturn
    \/ EncodeReturn
    \/ DecodeCall

Spec == Init /\ [][Next]_vars

\* --------------------------------------------- the merge functions alone
MergeNext == CallMergeTokenIds \/ CallFastMerge

\* The inputs are drawn; the tokenizer is as constructed and is not used.
InitMerge == MergeInit /\ TokInit

SpecMerge == InitMerge /\ [][MergeNext]_vars

\* ================================================================ claims
\* The adjacent pairs of one id list.
AdjacentPairs(ids) == {<<ids[j], ids[j + 1]>> : j \in 1..(Len(ids) - 1)}

\* The adjacent pairs of an id list that are keys of a merge table.
MergeablePairs(ids, merges_) == {p \in AdjacentPairs(ids) : DictHas(merges_, p)}

\* The places, chunk and position, where a pair occurs in the chunks; how
\* many there are; the pairs that occur; those that occur most often.
PlacesOf(ids, pair) ==
    UNION {{<<c, j>> : j \in {n \in 1..(Len(ids[c]) - 1) :
                                 ids[c][n] = pair[1] /\ ids[c][n + 1] = pair[2]}} :
           c \in 1..Len(ids)}

CountIn(ids, pair) == Cardinality(PlacesOf(ids, pair))

PairsIn(ids) ==
    UNION {{<<ids[c][j], ids[c][j + 1]>> : j \in 1..(Len(ids[c]) - 1)} : c \in 1..Len(ids)}

MaxPairsIn(ids) ==
    {p \in PairsIn(ids) : \A q \in PairsIn(ids) : CountIn(ids, q) <= CountIn(ids, p)}

\* Position j (1-based) starts a replaced occurrence: the pair is there
\* and, for a pair (a, a), j is an even number of places into its run.
MergeStart(ids, pair, j) ==
    /\ j < Len(ids)
    /\ ids[j] = pair[1]
    /\ ids[j + 1] = pair[2]
    /\ pair[1] = pair[2] =>
           LET run == {n \in 1..j : \A m \in n..j : ids[m] = pair[1]}
               first == CHOOSE n \in run : \A m \in run : n <= m
           IN  (j - first) % 2 = 0

\* The left-to-right scan, by position: the ids of the positions that are
\* not the second half of a replaced occurrence, each occurrence as r.
CursorScan(ids, pair, r) ==
    LET kept == {j \in 1..Len(ids) : ~(j > 1 /\ MergeStart(ids, pair, j - 1))}
        nth(n) == CHOOSE j \in kept : Cardinality({m \in kept : m <= j}) = n
    IN  [n \in 1..Cardinality(kept) |->
            IF MergeStart(ids, pair, nth(n)) THEN r ELSE ids[nth(n)]]

RECURSIVE Flatten(_)
Flatten(lists) == IF lists = <<>> THEN <<>> ELSE Head(lists) \o Flatten(Tail(lists))

\* ---------------------------------------------------------------- C1
\* C1: round trip.  Whenever decode has run on the ids encode_ordinary
\* returned for a text, it returned that text, and the vocab entries of the
\* ids, joined, are the UTF-8 bytes of the text.
C1_RoundTrip ==
    dc_outcome # "none" =>
        /\ dc_outcome = "returned"
        /\ dc_text = en_text
        /\ JoinVocab(vocab, en_ids) = Utf8Encode(en_text)

\* A two-chunk text with a two-byte code point, encoded with a merge token.
C1_Witness ==
    /\ dc_outcome = "returned"
    /\ en_text = <<233, 32>>
    /\ en_ids = <<Base, 32>>
    /\ dc_text = <<233, 32>>

\* ---------------------------------------------------------------- C2
\* C2: vocabulary size.  After train(text, v) has returned, v >= 256,
\* len(vocab) is 256 plus the number of rounds executed and at most v, and
\* it is less than v only if no chunk is left with two or more tokens.
C2_VocabSize ==
    tr_outcome = "returned" =>
        /\ tr_vocab_size >= Base
        /\ Cardinality(DOMAIN vocab) = Base + tr_i
        /\ Cardinality(DOMAIN vocab) <= tr_vocab_size
        /\ Cardinality(DOMAIN vocab) < tr_vocab_size =>
               \A c \in 1..Len(tr_ids) : Len(tr_ids[c]) < 2

\* Training stopped early after at least one round, on a corpus of two chunks.
C2_Witness ==
    /\ tr_outcome = "returned"
    /\ tr_i >= 1
    /\ Cardinality(DOMAIN vocab) < tr_vocab_size
    /\ Len(tr_ids) >= 2

\* ---------------------------------------------------------------- C3
\* C3: merge table.  At every round boundary of train and after it returns,
\* the result ids of merges, in insertion order, are 256, 257, ... without
\* gap or repeat, there are as many entries as rounds executed, no two
\* entries have the same pair, and no merged pair is adjacent in any chunk.
C3_MergeTable ==
    /\ tr_outcome \in {"running", "returned"} =>
           /\ Len(tr_merges) = tr_i
           /\ \A j \in 1..Len(tr_merges) : tr_merges[j].v = Base + j - 1
           /\ \A j, n \in 1..Len(tr_merges) : tr_merges[j].k = tr_merges[n].k => j = n
           /\ \A j \in 1..Len(tr_pairs) : CountIn(tr_ids, tr_pairs[j]) = 0
    /\ tr_outcome = "returned" => merges = tr_merges
    /\ \A j \in 1..Len(merges) : merges[j].v = Base + j - 1

\* Two rounds were executed and train has returned their table.
C3_Witness ==
    /\ tr_outcome = "returned"
    /\ Len(merges) = 2
    /\ merges[2].k[1] = Base

\* ---------------------------------------------------------------- C4
\* The first place, chunk then position, where a pair occurs in the chunks.
Before(x, y) == x[1] < y[1] \/ (x[1] = y[1] /\ x[2] <= y[2])

FirstAt(ids, pair) ==
    CHOOSE x \in PlacesOf(ids, pair) : \A y \in PlacesOf(ids, pair) : Before(x, y)

\* C4: selection.  The pair a round merges has the greatest count over the
\* chunks as the round found them, and of the pairs with that count it is
\* the one that occurs first, in chunk order and left to right; it is the
\* pair the round records and applies.
C4_Selection ==
    \A r \in 1..Len(tr_pairs) :
        /\ tr_pairs[r] \in MaxPairsIn(tr_seen[r])
        /\ \A q \in MaxPairsIn(tr_seen[r]) :
               Before(FirstAt(tr_seen[r], tr_pairs[r]), FirstAt(tr_seen[r], q))
        /\ DictGet(tr_merges, tr_pairs[r], 0) = Base + r - 1
        /\ LET after == IF r < Len(tr_seen) THEN tr_seen[r + 1] ELSE tr_ids
           IN  \A c \in 1..Len(after) :
                   after[c] = CursorScan(tr_seen[r][c], tr_pairs[r], Base + r - 1)

\* A round with a tie at the greatest count, counted over two chunks.
C4_Witness ==
    /\ tr_outcome = "running"
    /\ Len(tr_pairs) = 1
    /\ Len(tr_seen[1]) >= 2
    /\ Cardinality(MaxPairsIn(tr_seen[1])) >= 2
    /\ CountIn(tr_seen[1], tr_pairs[1]) >= 2

\* A round whose pair is not the first pair of the corpus.
C4_WitnessNotFirst ==
    /\ tr_outcome = "running"
    /\ Len(tr_pairs) = 1
    /\ FirstAt(tr_seen[1], tr_pairs[1]) # <<1, 1>>

\* ---------------------------------------------------------------- C5
RECURSIVE TrainNoFlag(_, _, _, _)
\* The training loop with the lines that compute ambiguous taken out.
TrainNoFlag(ids, num_merges, i, merges_) ==
    IF ~(i < num_merges) \/ AccumStats(ids) = <<>>
    THEN merges_
    ELSE LET pair == MaxKey(AccumStats(ids))
             idx == NewTokenId(i)
         IN  TrainNoFlag([c \in 1..Len(ids) |-> MergeTokenIds(ids[c], pair, idx)],
                         num_merges, i + 1, DictSet(merges_, pair, idx))

\* C5: ambiguity flag.  train returns true exactly when some executed round
\* had two or more distinct pairs of the greatest count, and merges and
\* vocab are those the loop yields without the flag.
C5_Ambiguous ==
    tr_outcome = "returned" =>
        /\ tr_ret = (\E r \in 1..Len(tr_seen) : Cardinality(MaxPairsIn(tr_seen[r])) >= 2)
        /\ Len(tr_seen) = tr_i
        /\ merges = TrainNoFlag(ChunkIds(tr_text), NumMerges(tr_vocab_size), 0, <<>>)
        /\ vocab = BuildVocab(merges)

\* train returned true after a first round without a tie.
C5_Witness ==
    /\ tr_outcome = "returned"
    /\ tr_ret = TRUE
    /\ tr_i = 2
    /\ tr_text = <<97, 233, 233>>

\* ---------------------------------------------------------------- C6
\* C6: merge_token_ids returns the left-to-right scan without overlap; a
\* run a a a a with pair (a, a) becomes r r and a run a a a becomes r a;
\* the list passed in is as it was.
C6_MergeApplier ==
    mg_done =>
        /\ mg_ret = CursorScan(in_ids, mg_pair, mg_idx)
        /\ \A a \in MergeToks :
               /\ (in_ids = <<a, a, a, a>> /\ mg_pair = <<a, a>>) => mg_ret = <<mg_idx, mg_idx>>
               /\ (in_ids = <<a, a, a>> /\ mg_pair = <<a, a>>) => mg_ret = <<mg_idx, a>>
        /\ mg_ids = in_ids

\* merge_token_ids was called on a a a a with the pair (a, a).
C6_Witness ==
    /\ mg_done
    /\ in_ids = <<97, 97, 97, 97>>
    /\ mg_ids = in_ids
    /\ mg_pair = <<97, 97>>
    /\ mg_idx = Base
    /\ mg_ret = <<Base, Base>>

\* ---------------------------------------------------------------- C7
\* C7: greedy encode.  Each merge _encode_chunk applies is of a pair that
\* is adjacent in the current ids and a key of merges, with the smallest
\* result id of all such pairs; each merge shortens the ids, so the loop
\* runs fewer times than the chunk has bytes; the loop goes on exactly
\* while some adjacent pair of its ids is a key of merges, and when the
\* call has returned none is.
C7_GreedyEncode ==
    /\ ch_applied # <<>> =>
           /\ ch_pair \in MergeablePairs(ch_prev, merges)
           /\ \A q \in MergeablePairs(ch_prev, merges) :
                  DictGet(merges, ch_pair, 0) <= DictGet(merges, q, 0)
           /\ ch_applied[Len(ch_applied)] = DictGet(merges, ch_pair, 0)
           /\ ch_ids = MergeTokenIds(ch_prev, ch_pair, DictGet(merges, ch_pair, 0))
           /\ Len(ch_ids) < Len(ch_prev)
    /\ pc = "chunk" =>
           /\ Len(ch_applied) + Len(ch_ids) <= Len(Utf8Encode(en_chunks[en_k + 1]))
           /\ ChunkLoopMerges(ch_ids, merges) <=> MergeablePairs(ch_ids, merges) # {}
    /\ (pc # "chunk" /\ en_k >= 1) => MergeablePairs(ch_ids, merges) = {}

\* A merge was applied while two distinct pairs of the ids were keys of
\* merges, and the pair merged was not the leftmost of them.
C7_Witness ==
    /\ ch_applied # <<>>
    /\ Cardinality(MergeablePairs(ch_prev, merges)) >= 2
    /\ \E j \in 1..(Len(ch_prev) - 1) :
           /\ DictHas(merges, <<ch_prev[j], ch_prev[j + 1]>>)
           /\ <<ch_prev[j], ch_prev[j + 1]>> # ch_pair
           /\ \A n \in 1..j : <<ch_prev[n], ch_prev[n + 1]>> # ch_pair

\* ---------------------------------------------------------------- C8
\* C8: a train call with vocab_size < 256 raises and leaves merges and
\* vocab as they were: no step ends with such a call under way or ended
\* other than by the error, and none of them changes self.
C8_TrainRejects ==
    [][tr_vocab_size' < Base =>
           /\ tr_outcome' = "AssertionError"
           /\ merges' = merges
           /\ vocab' = vocab]_vars

\* The call was rejected on a tokenizer that had been trained.
C8_Witness ==
    /\ tr_outcome = "AssertionError"
    /\ tr_vocab_size = Base - 1
    /\ Len(merges) = 2

\* ---------------------------------------------------------------- C9
\* C9: fast_merge_inplace_token_ids on a copy of ids returns what
\* merge_token_ids returns on ids, for every ids, pair and idx.
C9_SameResult == (mg_done /\ fm_done) => fm_ret = mg_ret

\* The two agree whenever idx is not the first id of the pair (as in every
\* call train could make, where idx is a fresh id).
C9_SameResultOtherIdx == (mg_done /\ fm_done /\ mg_idx # mg_pair[1]) => fm_ret = mg_ret

\* --------------------------------------------------------------- C10
\* C10: replay.  The result ids of the merges one _encode_chunk call
\* applies are strictly increasing, and encoding the text the tokenizer
\* was trained on gives, chunk by chunk, the ids train ended with.
C10_Replay ==
    /\ \A j \in 1..(Len(ch_applied) - 1) : ch_applied[j] < ch_applied[j + 1]
    /\ (tr_outcome = "returned" /\ en_outcome # "none") =>
           /\ en_text = tr_text
           /\ Len(en_chunks) = Len(tr_ids)
           /\ (pc # "chunk" /\ en_k >= 1) => ch_ids = tr_ids[en_k]
           /\ en_outcome = "returned" => en_ids = Flatten(tr_ids)

\* The training text was encoded again: two chunks, two merges in the last.
C10_Witness ==
    /\ tr_outcome = "returned"
    /\ en_outcome = "returned"
    /\ Len(tr_ids) >= 2
    /\ Len(ch_applied) = 2
    /\ Len(merges) = 2

=============================================================================
